---- MODULE Spec2Model ----
(***************************************************************************)
(* A model of esp-crsf (ESP_CRSF.c / ESP_CRSF.h): the CRSF receive task,   *)
(* the failsafe one-shot timer, the mutex-guarded store of the latest      *)
(* channel data and link statistics, and the telemetry send functions.     *)
(*                                                                         *)
(* Bytes are naturals in 0..255.  A C struct that is copied or sent as raw *)
(* memory is modelled by the sequence of its bytes in memory order (the    *)
(* ESP32 is little-endian).                                                *)
(***************************************************************************)
EXTENDS Integers, Sequences, FiniteSets, TLC

VARIABLES
    init_pc,                  \* position of the caller inside CRSF_init
    created,                  \* what the calls of CRSF_init have created so far
    failsafe_timer,           \* static TimerHandle_t failsafe_timer
    failsafe_flag,            \* static bool failsafe_flag
    xMutex,                   \* holder of the mutex: -1 nobody, 0 rx_task, c >= 1 caller c
    received_channels,        \* crsf_channels_t received_channels (22 bytes)
    received_link_statistics, \* crsf_link_statistics_t (10 bytes)
    wire,                     \* bytes on the UART not yet handed to rx_task
    rx_pc,                    \* position of rx_task
    rx_event,                 \* the bytes uart_read_bytes put in dtmp (event.size of them)
    rx_oob,                   \* the byte an out-of-bounds read of payload[] yields
    timer_active,             \* the one-shot timer is in the active list
    timer_left,               \* ticks until the active timer expires
    timer_queue,              \* ages (in ticks) of the start/reset commands queued
    daemon_pc,                \* position of the timer service task
    caller_pc,                \* position of each reading context
    caller_op,                \* which read each reading context performs
    caller_buf,               \* the copy each reading context has made so far
    since_frame,              \* ticks since rx_task last handled a valid channel frame, counted
                              \* from its timer reset, the statement before the last (-1: never)
    last_channels,            \* value of the most recently completed channel update
    last_stats,               \* value of the most recently completed statistics update
    call,                     \* the last send_* call and its arguments
    uart_tx                   \* the bytes that call handed to uart_write_bytes

initVars  == <<init_pc, created>>
rxVars    == <<wire, rx_pc, rx_event, rx_oob>>
storeVars == <<xMutex, received_channels, received_link_statistics,
               last_channels, last_stats>>
timerVars == <<failsafe_timer, timer_active, timer_left, timer_queue, daemon_pc>>
flagVars  == <<failsafe_flag, since_frame>>
callerVars == <<caller_pc, caller_op, caller_buf>>
sendVars  == <<call, uart_tx>>
vars == <<initVars, rxVars, storeVars, timerVars, flagVars, callerVars, sendVars>>

-----------------------------------------------------------------------------
(* Program constants.                                                      *)

CRSF_TYPE_CHANNELS        == 22    \* 0x16
CRSF_TYPE_BATTERY         == 8     \* 0x08
CRSF_TYPE_GPS             == 2     \* 0x02
CRSF_TYPE_RPM             == 12    \* 0x0C
CRSF_TYPE_TEMP            == 13    \* 0x0D
CRSF_TYPE_LINK_STATISTICS == 20    \* 0x14
CRSF_DEST_FC              == 200   \* 0xC8
CRSF_DEST_RADIO           == 234   \* 0xEA
CRC_POLY                  == 213   \* generate_CRC(0xd5)
RPM_MAX_VALUES            == 19    \* if (num_values > 19) num_values = 19
SIZEOF_CHANNELS           == 22    \* sizeof(crsf_channels_t): 16 x 11 bits, packed
SIZEOF_LINK_STATISTICS    == 10    \* sizeof(crsf_link_statistics_t)
SIZEOF_BATTERY            == 8     \* sizeof(crsf_battery_t): 16 + 16 + 24 + 8 bits, packed
SIZEOF_GPS                == 15    \* sizeof(crsf_gps_t): 4 + 4 + 2 + 2 + 2 + 1, packed

Dests == {CRSF_DEST_FC, CRSF_DEST_RADIO}

-----------------------------------------------------------------------------
(* Bounds of the model.                                                    *)

MaxPayloadLen == 62   \* longest payload handed directly to CRSF_send_payload
MaxTemps      == 30   \* largest num_temps given to CRSF_send_temp_data
MaxRpm        == 21   \* largest num_values given to CRSF_send_rpm_values
FailsafeTicks == 2    \* the 500 ms timer period, in model ticks
TimerQueueLen == 1    \* free slots of the timer command queue
NumCallers    == 1    \* contexts calling the read functions
MaxInitCalls  == 2    \* calls of CRSF_init

-----------------------------------------------------------------------------
(* Fixed-width arithmetic.                                                 *)

U8(x)  == x % 256
U16(x) == x % 65536
\* bits 0..23 of a two's-complement integer (what the masks 0xFF, 0xFF00, 0xFF0000 see)
Low24(x) == x % 16777216

Min(a, b) == IF a < b THEN a ELSE b

BitAt(x, i) == (x \div (2^i)) % 2

\* a ^ b on 8-bit values
BitXor8(a, b) ==
    LET bit(i) == ((BitAt(a, i) + BitAt(b, i)) % 2) * (2^i)
    IN  bit(0) + bit(1) + bit(2) + bit(3) + bit(4) + bit(5) + bit(6) + bit(7)

\* byte k (0 = least significant) of a non-negative integer
ByteOf(x, k) == (x \div (256^k)) % 256

-----------------------------------------------------------------------------
(* Checksum: generate_CRC and crc8.                                        *)

\* crc = (crc << 1) ^ ((crc & 0x80) ? poly : 0), stored back into a uint8_t
CrcRound(crc, poly) == BitXor8(U8(crc * 2), IF crc >= 128 THEN poly ELSE 0)

RECURSIVE CrcShift(_, _, _)
CrcShift(crc, poly, shift) ==
    IF shift = 0 THEN crc ELSE CrcShift(CrcRound(crc, poly), poly, shift - 1)

generate_CRC(poly) == [idx \in 0..255 |-> CrcShift(idx, poly, 8)]

\* the table as CRSF_init leaves it
crc8_table == generate_CRC(CRC_POLY)

\* the loop  while (len--) crc = crc8_table[crc ^ *data++];  over data[lo..hi]; the
\* iterations are the same and in the same order, only grouped in halves (the first
\* half's result is a byte before the second half starts) so that the evaluation
\* does not nest once per byte
RECURSIVE Crc8Loop(_, _, _, _)
Crc8Loop(crc, data, lo, hi) ==
    IF lo > hi THEN crc
    ELSE IF lo = hi THEN crc8_table[BitXor8(crc, data[lo])]
    ELSE LET mid  == (lo + hi) \div 2
             left == Crc8Loop(crc, data, lo, mid)
         IN  IF left \in 0..255 THEN Crc8Loop(left, data, mid + 1, hi) ELSE left

\* uint8_t crc8(const uint8_t *data, uint8_t len): len is taken modulo 256
crc8(data, len) == Crc8Loop(0, data, 1, U8(len))

-----------------------------------------------------------------------------
(* CRSF_send_payload: the bytes of the single uart_write_bytes call.       *)

\* as CRSF_send_payload, with the checksum taken from packet[3] on (the type left out)
CRSF_send_payload_CrcSkipsType(payload, destination, type, payload_length) ==
    LET head     == <<destination, U8(payload_length + 2), type>>
        body     == SubSeq(payload, 1, payload_length)
        checksum == crc8(body, payload_length)
    IN  head \o body \o <<checksum>>

\* payload_length is a uint8_t parameter; payload is the memory it points to
CRSF_send_payload(payload, destination, type, payload_length) ==
    LET head     == <<destination, U8(payload_length + 2), type>>
        body     == SubSeq(payload, 1, payload_length)
        checksum == crc8(<<type>> \o body, payload_length + 1)
    IN  head \o body \o <<checksum>>

-----------------------------------------------------------------------------
(* Telemetry structs as the caller holds them, and their bytes in memory.  *)

I16(x) == IF x >= 32768 THEN x - 65536 ELSE x

\* __bswap16 on a 16-bit pattern
bswap16(x) == (x % 256) * 256 + (x \div 256)

\* bswap24: swaps the low and the third byte of the 32-bit pattern, drops the top byte
bswap24(value) ==
    ByteOf(Low24(value), 0) * 65536 + ByteOf(Low24(value), 1) * 256 + ByteOf(Low24(value), 2)

\* int32_to_int24: byte0, byte1, byte2 of the value, in memory order
int32_to_int24(val) ==
    <<ByteOf(Low24(val), 0), ByteOf(Low24(val), 1), ByteOf(Low24(val), 2)>>

\* memory of a crsf_temp_t: temp_source_id, then each int16_t little-endian
TempMem(source_id, temp_value) ==
    [j \in 1..(1 + 2 * Len(temp_value)) |->
        IF j = 1 THEN source_id
        ELSE ByteOf(U16(temp_value[((j - 2) \div 2) + 1]), (j - 2) % 2)]

\* memory of a crsf_rpm_t: rpm_source_id, then each int24_t (3 bytes)
RpmMem(source_id, rpm_value) ==
    [j \in 1..(1 + 3 * Len(rpm_value)) |->
        IF j = 1 THEN source_id
        ELSE rpm_value[((j - 2) \div 3) + 1][((j - 2) % 3) + 1]]

-----------------------------------------------------------------------------
(* CRSF_send_temp_data.                                                    *)

\* the caller's temp_value[] after the in-place loop over i < num_temps
TempSwapped(temp_value, num_temps) ==
    [i \in 1..Len(temp_value) |->
        IF i <= num_temps THEN I16(bswap16(U16(temp_value[i]))) ELSE temp_value[i]]

\* the bytes written; payload_size (a size_t) is narrowed to the uint8_t parameter
CRSF_send_temp_data(dest, source_id, temp_value, num_temps) ==
    LET payload_size == 1 + (num_temps * 2)
    IN  CRSF_send_payload(TempMem(source_id, TempSwapped(temp_value, num_temps)),
                          dest, CRSF_TYPE_TEMP, U8(payload_size))

-----------------------------------------------------------------------------
(* CRSF_send_rpm_values.                                                   *)

RpmClampNone(num_values) == num_values

\* if (num_values > 19) num_values = 19;
RpmClamp(num_values) ==
    IF num_values > RPM_MAX_VALUES THEN RPM_MAX_VALUES ELSE num_values

\* the bytes written, <<>> when malloc returned NULL and the function returned early
CRSF_send_rpm_values(dest, source_id, rpm_values, num_values, malloc_ok) ==
    LET n           == RpmClamp(num_values)
        packet_size == 1 + (n * 3)
        rpm_value   == [i \in 1..n |-> int32_to_int24(bswap24(rpm_values[i]))]
    IN  IF ~malloc_ok THEN <<>>
        ELSE CRSF_send_payload(RpmMem(source_id, rpm_value), dest, CRSF_TYPE_RPM,
                               U8(packet_size))

-----------------------------------------------------------------------------
(* CRSF_send_battery_data and CRSF_send_gps_data: both work on the caller's *)
(* struct through the pointer they are given.                               *)

\* memory of a crsf_battery_t: voltage (16 bits), current (16), capacity (24),
\* remaining (8), each little-endian
BatteryMem(b) ==
    <<ByteOf(b.voltage, 0), ByteOf(b.voltage, 1), ByteOf(b.current, 0), ByteOf(b.current, 1),
      ByteOf(b.capacity, 0), ByteOf(b.capacity, 1), ByteOf(b.capacity, 2), b.remaining>>

\* the caller's struct after the three assignments; __bswap16 takes a 16-bit
\* argument, so of the 24-bit capacity only the low 16 bits go in, and the result
\* shifted left by 8 is stored back into the 24-bit field
BatterySwapped(b) ==
    [voltage   |-> bswap16(b.voltage),
     current   |-> bswap16(b.current),
     capacity  |-> Low24(bswap16(U16(b.capacity)) * 256),
     remaining |-> b.remaining]

CRSF_send_battery_data(dest, b) ==
    CRSF_send_payload(BatteryMem(BatterySwapped(b)), dest, CRSF_TYPE_BATTERY, SIZEOF_BATTERY)

\* __bswap32 on the pattern of an int32_t, read back as an int32_t
bswap32(x) ==
    LET top == IF ByteOf(x, 0) >= 128 THEN ByteOf(x, 0) - 256 ELSE ByteOf(x, 0)
    IN  top * 16777216 + ByteOf(x, 1) * 65536 + ByteOf(x, 2) * 256 + ByteOf(x, 3)

\* memory of a crsf_gps_t
GpsMem(g) ==
    <<ByteOf(g.latitude, 0), ByteOf(g.latitude, 1), ByteOf(g.latitude, 2),
      ByteOf(g.latitude, 3),
      ByteOf(g.longitude, 0), ByteOf(g.longitude, 1), ByteOf(g.longitude, 2),
      ByteOf(g.longitude, 3),
      ByteOf(g.groundspeed, 0), ByteOf(g.groundspeed, 1),
      ByteOf(g.heading, 0), ByteOf(g.heading, 1),
      ByteOf(g.altitude, 0), ByteOf(g.altitude, 1),
      g.satellites>>

\* the caller's struct after the five assignments
GpsSwapped(g) ==
    [latitude    |-> bswap32(g.latitude),
     longitude   |-> bswap32(g.longitude),
     groundspeed |-> bswap16(g.groundspeed),
     heading     |-> bswap16(g.heading),
     altitude    |-> bswap16(g.altitude),
     satellites  |-> g.satellites]

CRSF_send_gps_data(dest, g) ==
    CRSF_send_payload(GpsMem(GpsSwapped(g)), dest, CRSF_TYPE_GPS, SIZEOF_GPS)

\* what CRSF_send_rpm_values hands back to its caller: the function is void, and the
\* early return after a failed malloc returns nothing either
CRSF_send_rpm_values_result(malloc_ok) == "void"

-----------------------------------------------------------------------------
(* Inputs of the send functions.                                           *)

SendTypes == {CRSF_TYPE_BATTERY, CRSF_TYPE_GPS, CRSF_TYPE_RPM, CRSF_TYPE_TEMP}
SourceIds == {0, 1}
PayloadSeeds == {0, 171}
TempBases == {-50, 250, 32700}
RpmBases  == {-1000, 0, -8388608}
RpmSteps  == {1, 70001}

BatteryValues ==
    {[voltage |-> v, current |-> c, capacity |-> cap, remaining |-> r] :
        v \in {0, 168, 65535}, c \in {0, 515}, cap \in {0, 1500, 70000, 16777215},
        r \in {0, 87, 255}}
GpsValues ==
    {[latitude |-> lat, longitude |-> lon, groundspeed |-> gs, heading |-> 9000,
      altitude |-> alt, satellites |-> 11] :
        lat \in {0, 523456789, -338688000}, lon \in {-2147483647 - 1, 134567890},
        gs \in {0, 350}, alt \in {1000, 1257}}

PatternBytes(seed, n) == [i \in 1..n |-> U8(seed + 7 * i)]
TempValues(base, n)   == [i \in 1..n |-> I16(U16(base + 3 * (i - 1)))]
RpmValues(base, step, n) == [i \in 1..n |-> base + step * (i - 1)]

-----------------------------------------------------------------------------
(* The send operations as actions (callable once CRSF_init has returned).  *)

\* a send function may be called once CRSF_init has returned
CanSend == init_pc = "done" /\ call.op = "none"

NotReceiving == UNCHANGED <<initVars, rxVars, storeVars, timerVars, flagVars, callerVars>>

SendPayload ==
    /\ CanSend
    /\ \E dest \in Dests, type \in SendTypes, seed \in PayloadSeeds, n \in 0..MaxPayloadLen :
        /\ call' = [op |-> "send_payload", dest |-> dest, type |-> type,
                    payload |-> PatternBytes(seed, n), payload_length |-> n]
        /\ uart_tx' = CRSF_send_payload(PatternBytes(seed, n), dest, type, n)
        /\ NotReceiving

SendTemp ==
    /\ CanSend
    /\ \E dest \in Dests, sid \in SourceIds, base \in TempBases, n \in 0..MaxTemps :
        /\ call' = [op |-> "send_temp", dest |-> dest, source_id |-> sid,
                    values |-> TempValues(base, n), num |-> n,
                    after |-> TempSwapped(TempValues(base, n), n),
                    first |-> CRSF_send_temp_data(dest, sid, TempValues(base, n), n),
                    again |-> FALSE]
        /\ uart_tx' = CRSF_send_temp_data(dest, sid, TempValues(base, n), n)
        /\ NotReceiving

SendBattery ==
    /\ CanSend
    /\ \E dest \in Dests, b \in BatteryValues :
        /\ call' = [op |-> "send_battery", dest |-> dest, values |-> b,
                    after |-> BatterySwapped(b),
                    first |-> CRSF_send_battery_data(dest, b), again |-> FALSE]
        /\ uart_tx' = CRSF_send_battery_data(dest, b)
        /\ NotReceiving

SendGps ==
    /\ CanSend
    /\ \E dest \in Dests, g \in GpsValues :
        /\ call' = [op |-> "send_gps", dest |-> dest, values |-> g,
                    after |-> GpsSwapped(g),
                    first |-> CRSF_send_gps_data(dest, g), again |-> FALSE]
        /\ uart_tx' = CRSF_send_gps_data(dest, g)
        /\ NotReceiving

\* the caller sends the struct it has just sent once more, without touching it
SendAgain ==
    /\ init_pc = "done"
    /\ call.op \in {"send_battery", "send_gps", "send_temp"}
    /\ ~call.again
    /\ \/ /\ call.op = "send_battery"
          /\ call' = [call EXCEPT !.again = TRUE, !.after = BatterySwapped(call.after)]
          /\ uart_tx' = CRSF_send_battery_data(call.dest, call.after)
       \/ /\ call.op = "send_gps"
          /\ call' = [call EXCEPT !.again = TRUE, !.after = GpsSwapped(call.after)]
          /\ uart_tx' = CRSF_send_gps_data(call.dest, call.after)
       \/ /\ call.op = "send_temp"
          /\ call' = [call EXCEPT !.again = TRUE,
                                  !.after = TempSwapped(call.after, call.num)]
          /\ uart_tx' = CRSF_send_temp_data(call.dest, call.source_id, call.after, call.num)
    /\ NotReceiving

SendRpm ==
    /\ CanSend
    /\ \E dest \in Dests, sid \in SourceIds, base \in RpmBases, step \in RpmSteps,
       n \in 0..MaxRpm, malloc_ok \in BOOLEAN :
        /\ call' = [op |-> "send_rpm", dest |-> dest, source_id |-> sid,
                    values |-> RpmValues(base, step, n), num |-> n,
                    malloc_ok |-> malloc_ok,
                    result |-> CRSF_send_rpm_values_result(malloc_ok)]
        /\ uart_tx' = CRSF_send_rpm_values(dest, sid, RpmValues(base, step, n), n, malloc_ok)
        /\ NotReceiving

\* the send function returns to its caller
SendReturn ==
    /\ call.op # "none"
    /\ call' = [op |-> "none"]
    /\ uart_tx' = <<>>
    /\ UNCHANGED <<initVars, rxVars, storeVars, timerVars, flagVars, callerVars>>

-----------------------------------------------------------------------------
(* What the UART delivers.  The remote end sends frames                     *)
(* [dest, length, type, payload, crc]; a frame may arrive damaged, and the  *)
(* driver may report its bytes in one UART_DATA event or in several.        *)

Zeros(n) == [i \in 1..n |-> 0]

\* bitwise CRC-8, polynomial 0xD5, initial value 0 (no table)
RefCrcByte(c) ==
    LET step(x) == IF x >= 128 THEN BitXor8((2 * x) % 256, 213) ELSE (2 * x) % 256
    IN  step(step(step(step(step(step(step(step(c))))))))

\* RefCrcByte for every byte, worked out once
RefCrcTable == [c \in 0..255 |-> RefCrcByte(c)]

RECURSIVE RefCrc8Range(_, _, _, _)
RefCrc8Range(c, bytes, lo, hi) ==
    IF lo > hi THEN c
    ELSE IF lo = hi THEN RefCrcTable[BitXor8(c, bytes[lo])]
    ELSE LET mid  == (lo + hi) \div 2
             left == RefCrc8Range(c, bytes, lo, mid)
         IN  IF left \in 0..255 THEN RefCrc8Range(left, bytes, mid + 1, hi) ELSE left

RefCrc8(bytes) == RefCrc8Range(0, bytes, 1, Len(bytes))

WireFrame(dest, type, payload) ==
    <<dest, Len(payload) + 2, type>> \o payload \o <<RefCrc8(<<type>> \o payload)>>

\* the frame with one bit of its checksum byte flipped
FlipCrcBit(frame, bit) ==
    [frame EXCEPT ![Len(frame)] = BitXor8(frame[Len(frame)], 2^bit)]

ChannelSeeds == {17}
LinkSeeds    == {5}
FlippedBits  == {0}
CutSizes     == {3, 10}

ChannelFrames == {WireFrame(d, CRSF_TYPE_CHANNELS, PatternBytes(s, SIZEOF_CHANNELS)) :
                      d \in {CRSF_DEST_FC}, s \in ChannelSeeds}
LinkFrames    == {WireFrame(d, CRSF_TYPE_LINK_STATISTICS,
                            PatternBytes(s, SIZEOF_LINK_STATISTICS)) :
                      d \in {CRSF_DEST_FC}, s \in LinkSeeds}
OtherFrames   == {WireFrame(CRSF_DEST_FC, CRSF_TYPE_BATTERY, PatternBytes(3, 8))}
GoodFrames    == ChannelFrames \cup LinkFrames \cup OtherFrames
DamagedFrames == {FlipCrcBit(f, b) : f \in ChannelFrames \cup LinkFrames, b \in FlippedBits}
WireFrames    == GoodFrames \cup DamagedFrames

\* frames a disturbed or foreign sender may put on the wire: a channel frame whose
\* length byte (4) is in range but smaller than the struct, frames with length byte
\* 0 and 1, and a channel frame addressed to a destination that is not in crsf_dest_t
ShortFrames     == {WireFrame(CRSF_DEST_FC, CRSF_TYPE_CHANNELS, PatternBytes(9, 2))}
BadLengthFrames == {<<CRSF_DEST_FC, 0, CRSF_TYPE_LINK_STATISTICS, 1, 2, 3>>,
                    <<CRSF_DEST_FC, 1, CRSF_TYPE_CHANNELS, 4, 5, 6>>}
ForeignFrames   == {WireFrame(85, CRSF_TYPE_CHANNELS, PatternBytes(23, SIZEOF_CHANNELS)),
                    WireFrame(85, CRSF_TYPE_LINK_STATISTICS,
                              PatternBytes(29, SIZEOF_LINK_STATISTICS))}
MalformedFrames == ShortFrames \cup BadLengthFrames \cup ForeignFrames

\* the sizes a UART_DATA event may report for the bytes waiting on the wire
EventSizes(w) == {Len(w)} \cup {k \in CutSizes : k < Len(w)}

\* what a read past the end of payload[] may find on the stack
StackBytes == {0, 165}

-----------------------------------------------------------------------------
(* rx_task: what it computes from one event (task-local).                  *)

\* dtmp[i] after bzero(dtmp) and uart_read_bytes(dtmp, event.size)
Dtmp(e, i) == IF i < Len(e) THEN e[i + 1] ELSE 0

RxDest(e)   == Dtmp(e, 0)
RxLength(e) == Dtmp(e, 1)
RxType(e)   == Dtmp(e, 2)

\* uint8_t payload_length = length - 2;
RxPayloadLength(e) == U8(RxLength(e) - 2)

\* payload[i] = dtmp[i + 3] for i < payload_length
RxPayload(e) == [i \in 1..RxPayloadLength(e) |-> Dtmp(e, (i - 1) + 3)]

\* *(T *)payload for a struct of `size` bytes: bytes past payload[] are whatever is there
StructAt(payload, size, oob) ==
    [i \in 1..size |-> IF i <= Len(payload) THEN payload[i] ELSE oob]

\* a struct assignment is not atomic: it is copied in two parts
CopyPart1(dst, src) == [i \in 1..Len(src) |-> IF 2 * i <= Len(src) THEN src[i] ELSE dst[i]]
CopyPart2(dst, src) == src

-----------------------------------------------------------------------------
(* The mutex and the timer command queue (FreeRTOS).                       *)

xSemaphoreTakeNoWait(ctx) == xMutex' = ctx

\* xSemaphoreTake(xMutex, portMAX_DELAY): returns once the mutex is free
xSemaphoreTake(ctx) == xMutex = -1 /\ xMutex' = ctx

\* a give that does not release the mutex
xSemaphoreGiveKeeps(ctx) == xMutex' = xMutex

xSemaphoreGive(ctx) == xMutex' = -1

\* xTimerStart / xTimerReset with block time 0: the command is queued if the
\* queue has room and dropped otherwise; the return value is not looked at
TimerCommand(handle) ==
    IF handle # "NULL" /\ Len(timer_queue) < TimerQueueLen
    THEN timer_queue' = Append(timer_queue, 0)
    ELSE timer_queue' = timer_queue

-----------------------------------------------------------------------------
(* Frames as the protocol defines them (used to tell what was received).   *)

WellFormed(e) ==
    /\ Len(e) >= 4
    /\ e[1] \in Dests
    /\ e[2] >= 2 /\ e[2] <= 62
    /\ Len(e) = e[2] + 2
    /\ e[Len(e)] = RefCrc8(SubSeq(e, 3, Len(e) - 1))

ValidChannelFrame(e) ==
    WellFormed(e) /\ e[3] = CRSF_TYPE_CHANNELS /\ e[2] = SIZEOF_CHANNELS + 2

ValidLinkFrame(e) ==
    WellFormed(e) /\ e[3] = CRSF_TYPE_LINK_STATISTICS /\ e[2] = SIZEOF_LINK_STATISTICS + 2

\* the events that are a valid channel frame (an event is a piece of one frame of
\* the wire, so it is one only if it is the whole of such a frame)
ValidChannelEvents == {f \in WireFrames \cup MalformedFrames : ValidChannelFrame(f)}

-----------------------------------------------------------------------------
(* The initial state: the statics as the program image holds them.         *)

Callers == 1..NumCallers

Init ==
    /\ init_pc = "start"
    /\ created = [calls |-> 1, tasks |-> 0, timers |-> 0, mutexes |-> 0]
    /\ failsafe_timer = "NULL"
    /\ failsafe_flag = TRUE
    /\ xMutex = -1
    /\ received_channels = Zeros(SIZEOF_CHANNELS)
    /\ received_link_statistics = Zeros(SIZEOF_LINK_STATISTICS)
    /\ wire = <<>>
    /\ rx_pc = "none"
    /\ rx_event = <<>>
    /\ rx_oob = 0
    /\ timer_active = FALSE
    /\ timer_left = 0
    /\ timer_queue = <<>>
    /\ daemon_pc = "idle"
    /\ caller_pc = [c \in Callers |-> "idle"]
    /\ caller_op = [c \in Callers |-> "channels"]
    /\ caller_buf = [c \in Callers |-> <<>>]
    /\ since_frame = -1
    /\ last_channels = Zeros(SIZEOF_CHANNELS)
    /\ last_stats = Zeros(SIZEOF_LINK_STATISTICS)
    /\ call = [op |-> "none"]
    /\ uart_tx = <<>>

-----------------------------------------------------------------------------
(* CRSF_init.                                                              *)

\* generate_CRC, UART set-up, xMutex = xSemaphoreCreateMutex(), xTaskCreate(rx_task):
\* the global xMutex now names a new, free mutex, and one more rx_task waits on
\* uart_queue (rx_pc follows the first of them)
InitSetup ==
    /\ init_pc = "start"
    /\ init_pc' = "task"
    /\ created' = [created EXCEPT !.tasks = @ + 1, !.mutexes = @ + 1]
    /\ xMutex' = -1
    /\ rx_pc' = IF rx_pc = "none" THEN "wait" ELSE rx_pc
    /\ UNCHANGED <<wire, rx_event, rx_oob, received_channels, received_link_statistics,
                   last_channels, last_stats, timerVars, flagVars, callerVars, sendVars>>

\* failsafe_timer = xTimerCreate(...): a handle, or NULL when it cannot be allocated
InitTimerCreate ==
    /\ init_pc = "task"
    /\ init_pc' = "timer"
    /\ \E handle \in {"NULL", "T"} :
          /\ failsafe_timer' = handle
          /\ created' = [created EXCEPT !.timers = IF handle = "NULL" THEN @ ELSE @ + 1]
    /\ UNCHANGED <<rxVars, storeVars, timer_active, timer_left, timer_queue, daemon_pc,
                   flagVars, callerVars, sendVars>>

\* if (failsafe_timer != NULL) xTimerStart(failsafe_timer, 0);
InitTimerStart ==
    /\ init_pc = "timer"
    /\ init_pc' = "done"
    /\ TimerCommand(failsafe_timer)
    /\ UNCHANGED <<created, rxVars, storeVars, failsafe_timer, timer_active, timer_left,
                   daemon_pc, flagVars, callerVars, sendVars>>

\* the application calls CRSF_init once more
InitAgain ==
    /\ init_pc = "done"
    /\ created.calls < MaxInitCalls
    /\ init_pc' = "start"
    /\ created' = [created EXCEPT !.calls = @ + 1]
    /\ UNCHANGED <<rxVars, storeVars, timerVars, flagVars, callerVars, sendVars>>

\* ESP_ERROR_CHECK(uart_driver_install(...)) in a repeated call: when the driver
\* refuses to be installed twice the check aborts and the chip restarts
InitAbort ==
    /\ init_pc = "start"
    /\ created.calls > 1
    /\ init_pc' = "start"
    /\ created' = [calls |-> 1, tasks |-> 0, timers |-> 0, mutexes |-> 0]
    /\ failsafe_timer' = "NULL"
    /\ failsafe_flag' = TRUE
    /\ xMutex' = -1
    /\ received_channels' = Zeros(SIZEOF_CHANNELS)
    /\ received_link_statistics' = Zeros(SIZEOF_LINK_STATISTICS)
    /\ wire' = <<>>
    /\ rx_pc' = "none"
    /\ rx_event' = <<>>
    /\ rx_oob' = 0
    /\ timer_active' = FALSE
    /\ timer_left' = 0
    /\ timer_queue' = <<>>
    /\ daemon_pc' = "idle"
    /\ caller_pc' = [c \in Callers |-> "idle"]
    /\ caller_op' = [c \in Callers |-> "channels"]
    /\ caller_buf' = [c \in Callers |-> <<>>]
    /\ since_frame' = -1
    /\ last_channels' = Zeros(SIZEOF_CHANNELS)
    /\ last_stats' = Zeros(SIZEOF_LINK_STATISTICS)
    /\ call' = [op |-> "none"]
    /\ uart_tx' = <<>>

-----------------------------------------------------------------------------
(* The remote end puts a frame on the wire.                                *)

Transmit ==
    /\ rx_pc # "none"
    /\ wire = <<>>
    /\ \E f \in WireFrames : wire' = f
    /\ UNCHANGED <<initVars, rx_pc, rx_event, rx_oob, storeVars, timerVars, flagVars,
                   callerVars, sendVars>>

\* a disturbed or foreign sender puts bytes on the wire
TransmitMalformed ==
    /\ rx_pc # "none"
    /\ wire = <<>>
    /\ \E f \in MalformedFrames : wire' = f
    /\ UNCHANGED <<initVars, rx_pc, rx_event, rx_oob, storeVars, timerVars, flagVars,
                   callerVars, sendVars>>

-----------------------------------------------------------------------------
(* rx_task.                                                                *)

ReadsPastPayload(e) ==
    \/ RxType(e) = CRSF_TYPE_CHANNELS /\ RxPayloadLength(e) < SIZEOF_CHANNELS
    \/ RxType(e) = CRSF_TYPE_LINK_STATISTICS /\ RxPayloadLength(e) < SIZEOF_LINK_STATISTICS

\* as RxDispatch, with a default case that is handled like link statistics
RxDispatchDefaultLink(e) ==
    IF RxType(e) = CRSF_TYPE_CHANNELS THEN "ch_take" ELSE "ls_take"

\* where switch (type) goes
RxDispatch(e) ==
    IF RxType(e) = CRSF_TYPE_CHANNELS THEN "ch_take"
    ELSE IF RxType(e) = CRSF_TYPE_LINK_STATISTICS THEN "ls_take"
    ELSE "wait"

\* xQueueReceive returns a UART_DATA event; bzero, uart_read_bytes, extraction of
\* dest/length/type and of payload[], and the switch
RxReceiveEvent(sizes) ==
    /\ rx_pc = "wait"
    /\ wire # <<>>
    /\ \E size \in sizes, oob \in StackBytes :
          LET e == SubSeq(wire, 1, size) IN
          /\ ReadsPastPayload(e) \/ oob = 0
          /\ wire' = SubSeq(wire, size + 1, Len(wire))
          /\ rx_pc' = RxDispatch(e)
          /\ rx_event' = IF RxDispatch(e) = "wait" THEN <<>> ELSE e
          /\ rx_oob' = IF RxDispatch(e) = "wait" THEN 0 ELSE oob
    /\ UNCHANGED <<initVars, storeVars, timerVars, flagVars, callerVars, sendVars>>

RxReceive == RxReceiveEvent(EventSizes(wire))

\* the same when the driver reports each frame in one event
RxReceiveWhole == RxReceiveEvent({Len(wire)})

RxTakeCh ==
    /\ rx_pc = "ch_take"
    /\ xSemaphoreTake(0)
    /\ rx_pc' = "ch_copy1"
    /\ UNCHANGED <<initVars, wire, rx_event, rx_oob, received_channels,
                   received_link_statistics, last_channels, last_stats,
                   timerVars, flagVars, callerVars, sendVars>>

\* received_channels = *(crsf_channels_t *)payload;
RxCopyCh1 ==
    /\ rx_pc = "ch_copy1"
    /\ received_channels' =
          CopyPart1(received_channels, StructAt(RxPayload(rx_event), SIZEOF_CHANNELS, rx_oob))
    /\ rx_pc' = "ch_copy2"
    /\ UNCHANGED <<initVars, wire, rx_event, rx_oob, xMutex, received_link_statistics,
                   last_channels, last_stats, timerVars, flagVars, callerVars, sendVars>>

RxCopyCh2 ==
    /\ rx_pc = "ch_copy2"
    /\ received_channels' =
          CopyPart2(received_channels, StructAt(RxPayload(rx_event), SIZEOF_CHANNELS, rx_oob))
    /\ rx_pc' = "ch_give"
    /\ UNCHANGED <<initVars, wire, rx_event, rx_oob, xMutex, received_link_statistics,
                   last_channels, last_stats, timerVars, flagVars, callerVars, sendVars>>

RxGiveCh ==
    /\ rx_pc = "ch_give"
    /\ xSemaphoreGive(0)
    /\ last_channels' = received_channels
    /\ rx_pc' = "ch_reset"
    /\ UNCHANGED <<initVars, wire, rx_event, rx_oob, received_channels,
                   received_link_statistics, last_stats, timerVars, flagVars,
                   callerVars, sendVars>>

\* if (failsafe_timer != NULL) xTimerReset(failsafe_timer, 0);
RxTimerReset ==
    /\ rx_pc = "ch_reset"
    /\ TimerCommand(failsafe_timer)
    /\ since_frame' = IF rx_event \in ValidChannelEvents THEN 0 ELSE since_frame
    /\ rx_pc' = "ch_clear"
    /\ UNCHANGED <<initVars, wire, rx_event, rx_oob, storeVars, failsafe_timer,
                   timer_active, timer_left, daemon_pc, failsafe_flag, callerVars, sendVars>>

\* failsafe_flag = false; break;
RxClearFlag ==
    /\ rx_pc = "ch_clear"
    /\ failsafe_flag' = FALSE
    /\ rx_pc' = "wait"
    /\ rx_event' = <<>>
    /\ rx_oob' = 0
    /\ UNCHANGED <<initVars, wire, storeVars, timerVars, since_frame, callerVars, sendVars>>

RxTakeLs ==
    /\ rx_pc = "ls_take"
    /\ xSemaphoreTake(0)
    /\ rx_pc' = "ls_copy1"
    /\ UNCHANGED <<initVars, wire, rx_event, rx_oob, received_channels,
                   received_link_statistics, last_channels, last_stats,
                   timerVars, flagVars, callerVars, sendVars>>

\* received_link_statistics = *(crsf_link_statistics_t *)payload;
RxCopyLs1 ==
    /\ rx_pc = "ls_copy1"
    /\ received_link_statistics' =
          CopyPart1(received_link_statistics,
                    StructAt(RxPayload(rx_event), SIZEOF_LINK_STATISTICS, rx_oob))
    /\ rx_pc' = "ls_copy2"
    /\ UNCHANGED <<initVars, wire, rx_event, rx_oob, xMutex, received_channels,
                   last_channels, last_stats, timerVars, flagVars, callerVars, sendVars>>

RxCopyLs2 ==
    /\ rx_pc = "ls_copy2"
    /\ received_link_statistics' =
          CopyPart2(received_link_statistics,
                    StructAt(RxPayload(rx_event), SIZEOF_LINK_STATISTICS, rx_oob))
    /\ rx_pc' = "ls_give"
    /\ UNCHANGED <<initVars, wire, rx_event, rx_oob, xMutex, received_channels,
                   last_channels, last_stats, timerVars, flagVars, callerVars, sendVars>>

RxGiveLs ==
    /\ rx_pc = "ls_give"
    /\ xSemaphoreGive(0)
    /\ last_stats' = received_link_statistics
    /\ rx_pc' = "wait"
    /\ rx_event' = <<>>
    /\ rx_oob' = 0
    /\ UNCHANGED <<initVars, wire, received_channels, received_link_statistics,
                   last_channels, timerVars, flagVars, callerVars, sendVars>>

\* the steps of the two cases of the switch
RxUpdate ==
    \/ RxTakeCh \/ RxCopyCh1 \/ RxCopyCh2 \/ RxGiveCh \/ RxTimerReset \/ RxClearFlag
    \/ RxTakeLs \/ RxCopyLs1 \/ RxCopyLs2 \/ RxGiveLs

RxStep == RxReceive \/ RxUpdate

-----------------------------------------------------------------------------
(* The timer service task and the tick.                                    *)

\* a queued start/reset command is taken: the timer expires one period after the
\* tick at which the command was issued
DaemonCommand ==
    /\ daemon_pc = "idle"
    /\ timer_queue # <<>>
    /\ timer_active' = TRUE
    /\ timer_left' = FailsafeTicks - Head(timer_queue)
    /\ timer_queue' = Tail(timer_queue)
    /\ UNCHANGED <<initVars, rxVars, storeVars, failsafe_timer, daemon_pc, flagVars,
                   callerVars, sendVars>>

\* the one-shot timer has expired: it leaves the active list, its callback is due
DaemonExpire ==
    /\ daemon_pc = "idle"
    /\ timer_active
    /\ timer_left = 0
    /\ timer_active' = FALSE
    /\ daemon_pc' = "callback"
    /\ UNCHANGED <<initVars, rxVars, storeVars, failsafe_timer, timer_left, timer_queue,
                   flagVars, callerVars, sendVars>>

\* failsafe_timer_callback: failsafe_flag = true;
DaemonCallback ==
    /\ daemon_pc = "callback"
    /\ failsafe_flag' = TRUE
    /\ daemon_pc' = "idle"
    /\ UNCHANGED <<initVars, rxVars, storeVars, failsafe_timer, timer_active, timer_left,
                   timer_queue, since_frame, callerVars, sendVars>>

\* one tick of the RTOS clock
Tick ==
    /\ init_pc # "start"
    /\ \/ timer_active /\ timer_left > 0
       \/ \E i \in 1..Len(timer_queue) : timer_queue[i] < FailsafeTicks
       \/ since_frame >= 0 /\ since_frame < FailsafeTicks
    /\ timer_left' = IF timer_active /\ timer_left > 0 THEN timer_left - 1 ELSE timer_left
    /\ timer_queue' = [i \in 1..Len(timer_queue) |-> Min(timer_queue[i] + 1, FailsafeTicks)]
    /\ since_frame' = IF since_frame >= 0 THEN Min(since_frame + 1, FailsafeTicks)
                      ELSE since_frame
    /\ UNCHANGED <<initVars, rxVars, storeVars, failsafe_timer, timer_active, daemon_pc,
                   failsafe_flag, callerVars, sendVars>>

TimerStep == DaemonCommand \/ DaemonExpire \/ DaemonCallback \/ Tick

-----------------------------------------------------------------------------
(* CRSF_receive_channels and CRSF_get_link_statistics, from any context.   *)

StoreOf(op) == IF op = "channels" THEN received_channels ELSE received_link_statistics

CallerBegin(c) ==
    /\ created.mutexes > 0
    /\ caller_pc[c] = "idle"
    /\ \E op \in {"channels", "stats"} :
          /\ caller_op' = [caller_op EXCEPT ![c] = op]
          /\ caller_buf' = [caller_buf EXCEPT ![c] = Zeros(Len(StoreOf(op)))]
    /\ caller_pc' = [caller_pc EXCEPT ![c] = "take"]
    /\ UNCHANGED <<initVars, rxVars, storeVars, timerVars, flagVars, sendVars>>

CallerTake(c) ==
    /\ caller_pc[c] = "take"
    /\ xSemaphoreTake(c)
    /\ caller_pc' = [caller_pc EXCEPT ![c] = "copy1"]
    /\ UNCHANGED <<initVars, rxVars, received_channels, received_link_statistics,
                   last_channels, last_stats, timerVars, flagVars, caller_op, caller_buf,
                   sendVars>>

\* *channels = received_channels;  /  stats = received_link_statistics;
CallerCopy1(c) ==
    /\ caller_pc[c] = "copy1"
    /\ caller_buf' = [caller_buf EXCEPT ![c] = CopyPart1(@, StoreOf(caller_op[c]))]
    /\ caller_pc' = [caller_pc EXCEPT ![c] = "copy2"]
    /\ UNCHANGED <<initVars, rxVars, storeVars, timerVars, flagVars, caller_op, sendVars>>

CallerCopy2(c) ==
    /\ caller_pc[c] = "copy2"
    /\ caller_buf' = [caller_buf EXCEPT ![c] = CopyPart2(@, StoreOf(caller_op[c]))]
    /\ caller_pc' = [caller_pc EXCEPT ![c] = "give"]
    /\ UNCHANGED <<initVars, rxVars, storeVars, timerVars, flagVars, caller_op, sendVars>>

\* xSemaphoreGive and return: the copy is handed to the caller, whose use of it is
\* not modelled
CallerGive(c) ==
    /\ caller_pc[c] = "give"
    /\ xSemaphoreGive(c)
    /\ caller_pc' = [caller_pc EXCEPT ![c] = "idle"]
    /\ caller_buf' = [caller_buf EXCEPT ![c] = <<>>]
    /\ UNCHANGED <<initVars, rxVars, received_channels, received_link_statistics,
                   last_channels, last_stats, timerVars, flagVars, caller_op, sendVars>>

CallerStep ==
    \E c \in Callers :
        CallerBegin(c) \/ CallerTake(c) \/ CallerCopy1(c) \/ CallerCopy2(c) \/ CallerGive(c)

-----------------------------------------------------------------------------
(* Specifications.                                                         *)

InitStep == InitSetup \/ InitTimerCreate \/ InitTimerStart

\* the receive side: CRSF_init, the wire, rx_task, the timer service and the clock
Next == InitStep \/ Transmit \/ RxStep \/ TimerStep

Spec == Init /\ [][Next]_vars

\* the store: rx_task's updates against concurrent readers (the timer service task
\* does not get to run)
NextStore == InitStep \/ Transmit \/ RxStep \/ CallerStep

SpecStore == Init /\ [][NextStore]_vars

\* the scheduling the code relies on: a context that is not blocked
\* keeps running (weak fairness of its steps), and a context blocked in
\* xSemaphoreTake(portMAX_DELAY) gets the mutex when it is given again and again
\* (strong fairness of the take).  Nothing obliges bytes to arrive or readers to call.
FairStore ==
    /\ SF_vars(RxTakeCh) /\ SF_vars(RxTakeLs)
    /\ WF_vars(RxCopyCh1 \/ RxCopyCh2 \/ RxGiveCh \/ RxTimerReset \/ RxClearFlag)
    /\ WF_vars(RxCopyLs1 \/ RxCopyLs2 \/ RxGiveLs)
    /\ \A c \in Callers :
          /\ SF_vars(CallerTake(c))
          /\ WF_vars(CallerCopy1(c) \/ CallerCopy2(c) \/ CallerGive(c))

\* rx_task and the readers contending for the mutex, each frame arriving whole
NextLock == InitStep \/ Transmit \/ RxReceiveWhole \/ RxUpdate \/ CallerStep

SpecLock == Init /\ [][NextLock]_vars /\ FairStore

\* the send functions
NextSend ==
    \/ InitStep
    \/ SendPayload \/ SendTemp \/ SendRpm \/ SendBattery \/ SendGps \/ SendAgain
    \/ SendReturn

SpecSend == Init /\ [][NextSend]_vars

\* rx_task against everything the wire may carry
NextRx == InitStep \/ Transmit \/ TransmitMalformed \/ RxStep

SpecRx == Init /\ [][NextRx]_vars

\* repeated calls of CRSF_init while other contexts read the store
NextInit == InitStep \/ InitAgain \/ InitAbort \/ CallerStep

SpecInit == Init /\ [][NextInit]_vars

-----------------------------------------------------------------------------
(* Properties: the send functions (checked under SpecSend).                *)

\* the payload size a send call asks CRSF_send_payload to frame
RequestedPayload ==
    IF call.op = "send_payload" THEN call.payload_length
    ELSE IF call.op = "send_temp" THEN 1 + 2 * call.num
    ELSE IF call.op = "send_rpm" THEN 1 + 3 * Min(call.num, 19)
    ELSE 0

\* a signed 24-bit big-endian triplet read off the wire
WireInt24(b) ==
    LET u == b[1] * 65536 + b[2] * 256 + b[3]
    IN  IF u >= 8388608 THEN u - 16777216 ELSE u

\* C7: for every destination, type and payload that fits the maximum frame size, the
\* one write of CRSF_send_payload is exactly [destination, payload_length + 2, type,
\* payload bytes in order, checksum], checksum being the CRC-8 (polynomial 0xD5,
\* initial value 0) of type followed by payload; so the length byte is the payload
\* length + 2 and payload length + 4 bytes are written.  The same holds of the frame
\* any send function writes when it fits the maximum frame size.
C7_OutboundFraming ==
    /\ (call.op = "send_payload" /\ call.payload_length + 2 <= 62) =>
          /\ uart_tx = <<call.dest, call.payload_length + 2, call.type>> \o call.payload
                          \o <<RefCrc8(<<call.type>> \o call.payload)>>
          /\ uart_tx[2] = Len(call.payload) + 2
          /\ Len(uart_tx) = Len(call.payload) + 4
    /\ (uart_tx # <<>> /\ Len(uart_tx) <= 64) =>
          WellFormed(uart_tx) /\ uart_tx[1] = call.dest

\* C7 witness: a payload of the largest accepted size (60 bytes) has been framed
C7_Witness ==
    /\ call.op = "send_payload"
    /\ call.payload_length = 60
    /\ Len(uart_tx) = 64
    /\ uart_tx[2] = 62
    /\ uart_tx[64] = RefCrc8(SubSeq(uart_tx, 3, 63))

\* C8: a send whose frame would exceed the maximum frame size (length byte above 62)
\* writes nothing, and no frame is ever written whose length byte is outside 2..62
\* or disagrees with the number of bytes written
C8_OversizeRejected ==
    /\ (call.op # "none" /\ RequestedPayload + 2 > 62) => uart_tx = <<>>
    /\ uart_tx # <<>> =>
          /\ uart_tx[2] >= 2 /\ uart_tx[2] <= 62
          /\ Len(uart_tx) = uart_tx[2] + 2

\* C9: the frame CRSF_send_temp_data writes holds at most 20 temperature entries
\* (payload at most 1 + 2*20 bytes) or nothing is written, and entries beyond the
\* 20th are not byte-swapped in the caller's struct
C9_TempCapacity ==
    call.op = "send_temp" =>
        /\ uart_tx = <<>> \/ Len(uart_tx) <= 4 + 1 + 2 * 20
        /\ \A i \in 1..call.num : i > 20 => call.after[i] = call.values[i]

\* C10: CRSF_send_rpm_values given n values writes (when its buffer could be
\* allocated) one frame carrying exactly min(n, 19) values, the first min(n, 19) of
\* the input in order after the source id, as signed 24-bit big-endian triplets
C10_RpmCapacity ==
    (call.op = "send_rpm" /\ call.malloc_ok) =>
        LET k == Min(call.num, 19) IN
        /\ Len(uart_tx) = 5 + 3 * k
        /\ uart_tx[1] = call.dest
        /\ uart_tx[2] = 3 + 3 * k
        /\ uart_tx[3] = CRSF_TYPE_RPM
        /\ uart_tx[4] = call.source_id
        /\ \A i \in 1..k :
              WireInt24(SubSeq(uart_tx, 2 + 3 * i, 4 + 3 * i)) = call.values[i]
        /\ uart_tx[Len(uart_tx)] = RefCrc8(SubSeq(uart_tx, 3, Len(uart_tx) - 1))

\* C10 witness: 20 values were given and 19 were sent (a 62-byte frame)
C10_Witness ==
    /\ call.op = "send_rpm"
    /\ call.malloc_ok
    /\ call.num = 20
    /\ Len(uart_tx) = 62
    /\ WireInt24(SubSeq(uart_tx, 59, 61)) = call.values[19]
    /\ call.values[19] < 0

\* C13: when CRSF_send_rpm_values cannot allocate its packet it writes nothing and
\* hands its caller a result that differs from the result of a successful send
C13_AllocFailureReported ==
    (call.op = "send_rpm" /\ ~call.malloc_ok) =>
        /\ uart_tx = <<>>
        /\ call.result # CRSF_send_rpm_values_result(TRUE)

\* C14: CRSF_send_battery_data, CRSF_send_gps_data and CRSF_send_temp_data leave the
\* caller's telemetry value as it was, and sending the same value a second time
\* writes a frame identical to the first
C14_EncodingPure ==
    call.op \in {"send_battery", "send_gps", "send_temp"} =>
        /\ ~call.again => call.after = call.values
        /\ call.again => uart_tx = call.first

\* C19: for voltage and current in 0..65535, capacity in 0..2^24-1 and remaining in
\* 0..255, the 8 payload bytes CRSF_send_battery_data writes are voltage big-endian,
\* current big-endian, capacity big-endian in 3 bytes (most significant first, also
\* above 65535), remaining
C19_BatteryLayout ==
    (call.op = "send_battery" /\ ~call.again) =>
        SubSeq(uart_tx, 4, 11) =
            <<ByteOf(call.values.voltage, 1), ByteOf(call.values.voltage, 0),
              ByteOf(call.values.current, 1), ByteOf(call.values.current, 0),
              ByteOf(call.values.capacity, 2), ByteOf(call.values.capacity, 1),
              ByteOf(call.values.capacity, 0), call.values.remaining>>

-----------------------------------------------------------------------------
(* Properties: the failsafe flag (checked under Spec).                     *)

\* somebody is still going to make the failsafe timer expire
TimerExpiryPending ==
    \/ timer_active
    \/ timer_queue # <<>>
    \/ daemon_pc = "callback"
    \/ rx_pc \in {"ch_take", "ch_copy1", "ch_copy2", "ch_give", "ch_reset"}
    \/ init_pc \in {"start", "task"}
    \/ init_pc = "timer" /\ failsafe_timer # "NULL"

\* C1: while less than the timeout has elapsed since rx_task last finished a valid
\* channel frame, CRSF_is_failsafe() returns false.  (The time is counted from the
\* frame's timer reset, which is not later than the end of its processing, and the
\* state between that reset and the clearing of the flag is left out.)
C1_FailsafeWindow ==
    (since_frame >= 0 /\ since_frame < FailsafeTicks /\ rx_pc # "ch_clear")
        => failsafe_flag = FALSE

\* C2: as long as rx_task has not finished any valid channel frame,
\* CRSF_is_failsafe() returns true
C2_FailsafeUntilFirstFrame ==
    since_frame = -1 => failsafe_flag = TRUE

\* C3: there is no state in which the flag is false and no expiry of the failsafe
\* timer is pending (so that the flag returns to true once channel frames stop)
C3_ExpiryPending ==
    failsafe_flag = FALSE => TimerExpiryPending

-----------------------------------------------------------------------------
(* Properties: decoding (checked under Spec).                              *)

\* the event holds one whole frame whose checksum byte is not the CRC of type ++ payload
FrameWithBadChecksum(e) ==
    /\ Len(e) >= 4
    /\ e[1] \in Dests
    /\ e[2] >= 2 /\ e[2] <= 62
    /\ Len(e) = e[2] + 2
    /\ e[Len(e)] # RefCrc8(SubSeq(e, 3, Len(e) - 1))

\* C4: while rx_task handles a frame whose checksum is wrong, none of its steps
\* changes the stored channel data, the stored link statistics, the failsafe flag
\* or the timer (no reset is requested)
C4_ChecksumRejected ==
    [][(FrameWithBadChecksum(rx_event) /\ rx_pc' # rx_pc) =>
            UNCHANGED <<received_channels, received_link_statistics, failsafe_flag,
                        timer_queue>>]_vars

\* C5: rx_task never decodes or applies a frame from fewer bytes than its length
\* byte requires: an update is only under way for an event that holds length + 2 bytes
C5_NoPartialDecode ==
    rx_pc \notin {"none", "wait"} => Len(rx_event) >= RxLength(rx_event) + 2

-----------------------------------------------------------------------------
(* Properties: the store (checked under SpecStore).                        *)

InCriticalSection ==
    {c \in Callers : caller_pc[c] \in {"copy1", "copy2", "give"}}
        \cup (IF rx_pc \in {"ch_copy1", "ch_copy2", "ch_give",
                           "ls_copy1", "ls_copy2", "ls_give"} THEN {0} ELSE {})

\* C6: the copy a read returns equals the value written by the most recently
\* completed update (all-zero before the first), never a mixture of two updates,
\* and at most one context is inside a critical section of the store
C6_StoreConsistency ==
    /\ \A c \in Callers :
          caller_pc[c] = "give" =>
              caller_buf[c] = (IF caller_op[c] = "channels" THEN last_channels
                               ELSE last_stats)
    /\ Cardinality(InCriticalSection) <= 1
    /\ xMutex = -1 <=> InCriticalSection = {}

\* C6 witness: a reader has copied channel data that an update of rx_task stored,
\* while rx_task waits for the mutex with the next update
C6_Witness ==
    \E c \in Callers :
        /\ caller_pc[c] = "give"
        /\ caller_op[c] = "channels"
        /\ caller_buf[c] = PatternBytes(17, SIZEOF_CHANNELS)
        /\ rx_pc = "ch_take"

-----------------------------------------------------------------------------
(* Properties: CRSF_init (checked under SpecInit).                         *)

\* C11: however often CRSF_init is called, there is one rx_task, at most one
\* failsafe timer and one mutex, and the mutex a reader holds inside its critical
\* section is still the one xMutex names (it has not been replaced by a free one)
C11_InitIdempotent ==
    /\ created.tasks <= 1
    /\ created.timers <= 1
    /\ created.mutexes <= 1
    /\ InCriticalSection # {} => xMutex # -1

-----------------------------------------------------------------------------
(* Properties: rx_task against arbitrary input (checked under SpecRx).     *)

RxPositions ==
    {"none", "wait", "ch_take", "ch_copy1", "ch_copy2", "ch_give", "ch_reset", "ch_clear",
     "ls_take", "ls_copy1", "ls_copy2", "ls_give"}

\* C12: whatever bytes an event carries, rx_task stays inside its loop and does not
\* access memory out of bounds: when it copies a struct out of payload[], payload[]
\* is at least as long as the struct
C12_RxNeverFaults ==
    /\ rx_pc \in RxPositions
    /\ rx_pc \in {"ch_copy1", "ch_copy2", "ls_copy1", "ls_copy2"}
          => ~ReadsPastPayload(rx_event)

\* C15: rx_task decodes and applies only input that starts with a recognized
\* destination (0xC8 or 0xEA): an update of channel data, link statistics or the
\* failsafe state is under way only for bytes whose first is one of the two
C15_SyncOnDestination ==
    rx_pc \notin {"none", "wait"} => RxDest(rx_event) \in Dests

\* C16: rx_task extracts a payload and applies an update only when the length byte
\* is in 2..62; the payload length is never the wrap-around of length - 2, and a
\* channel or link-statistics update is applied only when the length byte covers
\* the struct
C16_LengthBound ==
    rx_pc \notin {"none", "wait"} =>
        /\ RxLength(rx_event) >= 2 /\ RxLength(rx_event) <= 62
        /\ RxPayloadLength(rx_event) = RxLength(rx_event) - 2
        /\ RxType(rx_event) = CRSF_TYPE_CHANNELS => RxPayloadLength(rx_event) >= SIZEOF_CHANNELS
        /\ RxType(rx_event) = CRSF_TYPE_LINK_STATISTICS
              => RxPayloadLength(rx_event) >= SIZEOF_LINK_STATISTICS

\* the bytes an RxReceive step took off the wire
EventTaken == SubSeq(wire, 1, Len(wire) - Len(wire'))

FailsafeState == <<failsafe_flag, failsafe_timer, timer_active, timer_left, timer_queue>>

\* C17: every step of rx_task on a frame of type channels leaves the link statistics
\* alone; every step on a frame of type link statistics leaves the channel data, the
\* failsafe flag and the timer alone; receiving an event changes none of them, and
\* leads to the channel branch only for type 0x16, to the link-statistics branch
\* only for type 0x14, and straight back to waiting for every other type
C17_FrameEffect ==
    [][RxStep =>
        /\ (rx_pc # "wait" /\ RxType(rx_event) = CRSF_TYPE_CHANNELS)
              => UNCHANGED received_link_statistics
        /\ (rx_pc # "wait" /\ RxType(rx_event) = CRSF_TYPE_LINK_STATISTICS)
              => UNCHANGED <<received_channels, FailsafeState>>
        /\ rx_pc = "wait"
              => /\ UNCHANGED <<received_channels, received_link_statistics, FailsafeState>>
                 /\ rx_pc' = "ch_take" <=> RxType(EventTaken) = CRSF_TYPE_CHANNELS
                 /\ rx_pc' = "ls_take" <=> RxType(EventTaken) = CRSF_TYPE_LINK_STATISTICS
                 /\ rx_pc' \in {"ch_take", "ls_take", "wait"}
     ]_vars

\* C17 witness: a link-statistics frame has been stored after a channel frame had
\* been stored and had cleared the failsafe flag, and a frame of another type
\* (battery) is on the wire
C17_Witness ==
    /\ rx_pc = "wait"
    /\ received_link_statistics = PatternBytes(5, SIZEOF_LINK_STATISTICS)
    /\ received_channels = PatternBytes(17, SIZEOF_CHANNELS)
    /\ failsafe_flag = FALSE
    /\ wire \in OtherFrames

-----------------------------------------------------------------------------
(* Properties: the lock (checked under SpecLock).                          *)

\* rx_task holds the mutex only while it copies one struct, not while it waits for
\* an event, reads the UART, resets the timer or clears the flag; a reader holds it
\* only while it copies
LockHeldOnlyForCopy ==
    /\ xMutex = 0 <=> rx_pc \in {"ch_copy1", "ch_copy2", "ch_give",
                                 "ls_copy1", "ls_copy2", "ls_give"}
    /\ \A c \in Callers : xMutex = c <=> caller_pc[c] \in {"copy1", "copy2", "give"}

\* C18: the one mutex is held only around the copy of one value, is taken only
\* when nobody holds it, and every holder gives it back; every call of
\* CRSF_receive_channels / CRSF_get_link_statistics returns, also while rx_task
\* waits for bytes, and rx_task waiting for the mutex always gets it
C18_LockDiscipline ==
    /\ []LockHeldOnlyForCopy
    /\ [][(xMutex' # xMutex /\ xMutex' # -1) => xMutex = -1]_vars
    /\ \A h \in {0} \cup Callers : (xMutex = h) ~> (xMutex # h)
    /\ \A c \in Callers : (caller_pc[c] = "take") ~> (caller_pc[c] = "idle")
    /\ (rx_pc \in {"ch_take", "ls_take"}) ~> (rx_pc \in {"ch_copy1", "ls_copy1"})

\* C18 witness: a reader is in the middle of its copy, holding the mutex, while
\* rx_task is blocked in xSemaphoreTake with link statistics to store
C18_Witness ==
    \E c \in Callers :
        /\ caller_pc[c] = "copy2"
        /\ xMutex = c
        /\ rx_pc = "ls_take"

-----------------------------------------------------------------------------
(* Properties: store before flag (checked under SpecStore).                *)

\* the channel data of the channel frames the remote end sends
ChannelPayloads ==
    {SubSeq(f, 4, Len(f) - 1) : f \in {g \in WireFrames : g[3] = CRSF_TYPE_CHANNELS}}

\* what a call of CRSF_receive_channels made now returns: the stored value, or, when
\* rx_task is inside its critical section, the value it is storing (the reader waits)
ChannelsReadNow ==
    IF rx_pc \in {"ch_copy1", "ch_copy2"}
    THEN StructAt(RxPayload(rx_event), SIZEOF_CHANNELS, rx_oob)
    ELSE received_channels

\* C20: whenever CRSF_is_failsafe() returns false, a call of CRSF_receive_channels
\* made from then on returns the channel data of a received channel frame, never the
\* all-zero value the store has before the first frame
C20_StoreBeforeFlag ==
    failsafe_flag = FALSE =>
        /\ ChannelsReadNow \in ChannelPayloads
        /\ ChannelsReadNow # Zeros(SIZEOF_CHANNELS)

\* the events counted as valid channel frames are exactly the valid channel frames
ValidChannelEventsExact ==
    rx_pc \notin {"none", "wait"} =>
        (rx_event \in ValidChannelEvents <=> ValidChannelFrame(rx_event))

====
